---- MODULE Spec2Model ----
(***************************************************************************)
(* A model of src/bot.py: the DatabaseManager operations (accounts,        *)
(* ledger, catalog and orders, admin grants, tickets) and the text         *)
(* message router handle_message with the handlers it dispatches to.       *)
(*                                                                         *)
(* Money (REAL columns) is modelled in integer units.  Timestamps are the  *)
(* value of a logical clock `now` that the environment advances.  The      *)
(* button labels of the reply keyboards are Arabic strings with emoji in   *)
(* the source; here every label is an ASCII key, listed with the source    *)
(* line of its branch in handle_message.                                   *)
(***************************************************************************)
EXTENDS Integers, Sequences, FiniteSets, TLC

VARIABLES
    users,          \* table users: user_id -> row, or NoUser
    admins,         \* table admins: admin_id -> row, or NoGrant
    products,       \* table products: product_id -> row, or NoProduct
    orders,         \* table orders, in insertion order (order_id = index)
    transactions,   \* table transactions, in insertion order
    tickets,        \* table tickets, in insertion order
    user_data,      \* context.user_data of every user: flag -> BOOLEAN
    now,            \* CURRENT_TIMESTAMP: every update arrives one tick later
    replies,        \* payloads emitted by the last handler run
    last,           \* the last operation: its name, caller, input and outcome
    broadcasts,     \* completed runs of process_broadcast
    reqs,           \* create_order calls in flight (interleaved runs only)
    initStock,      \* history: the stock each product was added with
    running         \* the run of process_broadcast in progress, if any

vars == <<users, admins, products, orders, transactions, tickets, user_data,
          now, replies, last, broadcasts, reqs, initStock, running>>

-----------------------------------------------------------------------------
(* Bounds of the model *)

MaxTxns == 3        \* rows of the transactions table
MaxOrders == 2      \* rows of the orders table
MaxStock == 2       \* largest stock a product is added with
MaxProducts == 1    \* rows of the products table
MaxEvents == 3      \* inbound updates (commands and texts) handled in one run

UserIds == {1, 12}
\* ADMIN_IDS, src/bot.py line 32 (a placeholder in the source)
ADMIN_IDS == {1}
ProductIds == 1..(MaxProducts + 1)
Amounts == {-50, -20, 0, 30, 50}
Quantities == {-1, 0, 1, 2, 3}
Prices == {5, 20}
Suffixes == {"AAAAAA", "2AAAAA"}
\* The suffix drawn in the runs of the whole program
StartSuffixes == {"AAAAAA"}
ReqIds == {1, 2}

NoUser == [none |-> "user"]
NoGrant == [none |-> "grant"]
NoProduct == [none |-> "product"]
NoRead == [none |-> "read"]

-----------------------------------------------------------------------------
(* Pure helpers *)

\* str(user_id) inside the f-string of generate_referral_code
IdStr(u) == CASE u = 1 -> "1" [] u = 12 -> "12" [] u = 2 -> "2" [] OTHER -> "0"

\* A version whose code is the random suffix alone
generate_referral_code_noid(u, suffix) ==
    "REF" \o suffix

\* generate_referral_code: "REF" + the id + six random characters
generate_referral_code(u, suffix) == "REF" \o IdStr(u) \o suffix

Abs(n) == IF n < 0 THEN -n ELSE n

\* is_admin: a row of admins exists for the id
is_admin(u) == u \in DOMAIN admins /\ admins[u] # NoGrant

NoFlags == [f \in {"awaiting_input", "awaiting_broadcast", "awaiting_admin_id",
                   "removing_admin", "creating_ticket"} |-> FALSE]

Call(op, u, text, amount, ret) ==
    [op |-> op, user |-> u, text |-> text, amount |-> amount, ret |-> ret,
     raised |-> FALSE, by |-> 0, product |-> 0]

-----------------------------------------------------------------------------
(* Initial state: the tables right after init_database, no session data *)

\* No process_broadcast in progress
NoRun ==
    [pc |-> "idle", by |-> 0, text |-> "", todo |-> {}, attempted |-> 0,
     sent |-> 0]

Init ==
    /\ users = [u \in UserIds |-> NoUser]
    /\ admins = [u \in UserIds |->
                    IF u \in ADMIN_IDS THEN [added_by |-> u, level |-> 3]
                    ELSE NoGrant]
    /\ products = [p \in ProductIds |-> NoProduct]
    /\ orders = << >>
    /\ transactions = << >>
    /\ tickets = << >>
    /\ user_data = [u \in UserIds |-> NoFlags]
    /\ now = 0
    /\ replies = << >>
    /\ last = Call("init", 0, "", 0, "ok")
    /\ broadcasts = << >>
    /\ reqs = [r \in ReqIds |-> [pc |-> "idle", user |-> 0, product |-> 0,
                                 quantity |-> 0, read |-> NoRead, ret |-> 0]]
    /\ initStock = [p \in ProductIds |-> 0]
    /\ running = NoRun

-----------------------------------------------------------------------------
(* DatabaseManager: accounts *)

NewUserRow(u, suffix) ==
    [balance |-> 0, points |-> 0, is_banned |-> FALSE, message_count |-> 0,
     last_activity |-> now,
     referral_code |-> generate_referral_code(u, suffix)]

\* referral_code is UNIQUE: the INSERT fails when another row holds the code
CodeTaken(code) ==
    \E v \in UserIds : users[v] # NoUser /\ users[v].referral_code = code

\* add_user: the users table after the call, and the returned is_new
add_user_table(u, suffix) ==
    IF users[u] = NoUser /\ ~CodeTaken(generate_referral_code(u, suffix))
    THEN [users EXCEPT ![u] = NewUserRow(u, suffix)]
    ELSE IF users[u] # NoUser
         THEN [users EXCEPT ![u].last_activity = now]
         ELSE users

\* A version that reports a new account whenever the caller has one after
\* the call
add_user_is_new_any(u, suffix) ==
    add_user_table(u, suffix)[u] # NoUser

add_user_is_new(u, suffix) ==
    users[u] = NoUser /\ ~CodeTaken(generate_referral_code(u, suffix))

\* add_points on a given users table
add_points_table(tbl, u, points) ==
    IF tbl[u] = NoUser THEN tbl
    ELSE [tbl EXCEPT ![u].points = tbl[u].points + points]

\* ban_user
BanUser(u, ban) ==
    /\ users' = IF users[u] = NoUser THEN users
                 ELSE [users EXCEPT ![u].is_banned = ban]
    /\ last' = Call("ban_user", u, "", 0, "ok")
    /\ replies' = << >>
    /\ UNCHANGED <<admins, products, orders, transactions, tickets, user_data,
                   now, broadcasts, reqs, initStock,
                   running>>

-----------------------------------------------------------------------------
(* DatabaseManager: the ledger *)

\* update_balance without its check of the new balance
OverdrawnUnchecked(new_balance) == FALSE

\* The check `new_balance < 0` of update_balance
Overdrawn(new_balance) == new_balance < 0

\* A row that stores the signed amount
LedgerEntrySigned(u, amount) ==
    [user_id |-> u, type |-> IF amount > 0 THEN "credit" ELSE "debit",
     amount |-> amount]

\* The row update_balance logs: type from the sign, amount as absolute value
LedgerEntry(u, amount) ==
    [user_id |-> u, type |-> IF amount > 0 THEN "credit" ELSE "debit",
     amount |-> Abs(amount)]

\* update_balance: what the call returns (True, or False for either reason)
update_balance_ret(u, amount) ==
    IF users[u] = NoUser THEN "no_user"
    ELSE IF Overdrawn(users[u].balance + amount) THEN "rejected"
    ELSE "accepted"

\* update_balance: the users table after the call
update_balance_users(u, amount) ==
    IF update_balance_ret(u, amount) = "accepted"
    THEN [users EXCEPT ![u].balance = users[u].balance + amount]
    ELSE users

\* A version that logs the transaction before it checks the new balance
update_balance_transactions_early(u, amount) ==
    IF users[u] = NoUser THEN transactions
    ELSE Append(transactions, LedgerEntry(u, amount))

\* update_balance: the transactions table after the call
update_balance_transactions(u, amount) ==
    IF update_balance_ret(u, amount) = "accepted"
    THEN Append(transactions, LedgerEntry(u, amount))
    ELSE transactions

\* update_balance(user_id, amount), run from its first to its last statement
UpdateBalance(u, amount) ==
    /\ Len(transactions) < MaxTxns
    /\ users' = update_balance_users(u, amount)
    /\ transactions' = update_balance_transactions(u, amount)
    /\ last' = Call("update_balance", u, "", amount, update_balance_ret(u, amount))
    /\ replies' = << >>
    /\ UNCHANGED <<admins, products, orders, tickets, user_data, now,
                   broadcasts, reqs, initStock,
                   running>>

\* add_user called on its own (the account part of start)
AddUser(u, suffix) ==
    /\ users' = add_user_table(u, suffix)
    /\ last' = Call("add_user", u, "", 0,
                    IF add_user_is_new(u, suffix) THEN "new" ELSE "known")
    /\ replies' = << >>
    /\ UNCHANGED <<admins, products, orders, transactions, tickets, user_data,
                   now, broadcasts, reqs, initStock,
                   running>>

NextLedger ==
    \/ \E u \in UserIds, s \in Suffixes : AddUser(u, s)
    \/ \E u \in UserIds, a \in Amounts : UpdateBalance(u, a)

SpecLedger == Init /\ [][NextLedger]_vars

-----------------------------------------------------------------------------
(* DatabaseManager: catalog and orders *)

\* The category products are added with
Categories == {"digital"}

ProductCount == Cardinality({p \in ProductIds : products[p] # NoProduct})

\* add_product: a new row under the next product_id
AddProduct(price, stock, category) ==
    /\ ProductCount < MaxProducts
    /\ LET pid == ProductCount + 1 IN
        /\ products' = [products EXCEPT ![pid] =
                           [price |-> price, stock |-> stock,
                            category |-> category, is_active |-> TRUE]]
        /\ initStock' = [initStock EXCEPT ![pid] = stock]
        /\ last' = Call("add_product", 0, "", pid, "ok")
    /\ replies' = << >>
    /\ UNCHANGED <<users, admins, orders, transactions, tickets, user_data,
                   now, broadcasts, reqs, running>>

\* A check that only asks whether any stock is left
InsufficientStockAny(product, quantity) ==
    product = NoProduct \/ product.stock < 1

\* The check `not product or product['stock'] < quantity` of create_order
InsufficientStock(product, quantity) ==
    product = NoProduct \/ product.stock < quantity

\* A row priced for one unit, whatever the quantity
OrderRowUnit(u, pid, quantity, product) ==
    [user_id |-> u, product_id |-> pid, quantity |-> quantity,
     total_price |-> product.price, status |-> "pending"]

\* The row create_order inserts, priced from the product row it has read
OrderRow(u, pid, quantity, product) ==
    [user_id |-> u, product_id |-> pid, quantity |-> quantity,
     total_price |-> product.price * quantity, status |-> "pending"]

\* UPDATE products SET stock = stock - ? : relative to the stored stock
DecrementStock(pid, quantity) ==
    IF products[pid] = NoProduct THEN products
    ELSE [products EXCEPT ![pid].stock = products[pid].stock - quantity]

\* Writes that go ahead for every product that exists, whatever its stock
create_order_write_any(u, pid, quantity, product) ==
    IF product = NoProduct
    THEN UNCHANGED <<orders, products>>
    ELSE /\ orders' = Append(orders, OrderRow(u, pid, quantity, product))
         /\ products' = DecrementStock(pid, quantity)

\* The writes of create_order once `product` has been read by get_product
create_order_write(u, pid, quantity, product) ==
    IF InsufficientStock(product, quantity)
    THEN UNCHANGED <<orders, products>>
    ELSE /\ orders' = Append(orders, OrderRow(u, pid, quantity, product))
         /\ products' = DecrementStock(pid, quantity)

\* create_order: the returned order id, or -1
create_order_ret(quantity, product) ==
    IF InsufficientStock(product, quantity) THEN -1 ELSE Len(orders) + 1

\* create_order(user_id, product_id, quantity) run without interruption
CreateOrder(u, pid, quantity) ==
    /\ Len(orders) < MaxOrders
    /\ create_order_write(u, pid, quantity, products[pid])
    /\ last' = [Call("create_order", u, "", quantity,
                     IF create_order_ret(quantity, products[pid]) = -1
                     THEN "insufficient" ELSE "created")
                   EXCEPT !.product = pid]
    /\ replies' = << >>
    /\ UNCHANGED <<users, admins, transactions, tickets, user_data, now,
                   broadcasts, reqs, initStock,
                   running>>

NextCatalog ==
    \/ \E pr \in Prices, st \in 0..MaxStock, c \in Categories :
          AddProduct(pr, st, c)
    \/ \E u \in UserIds, pid \in ProductIds, q \in Quantities :
          CreateOrder(u, pid, q)

SpecCatalog == Init /\ [][NextCatalog]_vars

(* create_order as two database transactions: get_product reads the row on a
   connection of its own, and the INSERT and UPDATE run later on the
   connection of create_order.  Calls of different requests interleave
   between the two. *)

\* get_product: the read at the start of create_order
OrderRead(r, u, pid, quantity) ==
    /\ reqs[r].pc = "idle"
    /\ reqs' = [reqs EXCEPT ![r] = [pc |-> "read", user |-> u, product |-> pid,
                                    quantity |-> quantity,
                                    read |-> products[pid], ret |-> 0]]
    /\ last' = Call("get_product", u, "", quantity, "ok")
    /\ replies' = << >>
    /\ UNCHANGED <<users, admins, products, orders, transactions, tickets,
                   user_data, now, broadcasts, initStock,
                   running>>

\* The check, the INSERT, the UPDATE and the commit of create_order
OrderWrite(r) ==
    /\ reqs[r].pc = "read"
    /\ Len(orders) < MaxOrders
    /\ create_order_write(reqs[r].user, reqs[r].product, reqs[r].quantity,
                          reqs[r].read)
    /\ reqs' = [reqs EXCEPT ![r].pc = "done",
                            ![r].ret = create_order_ret(reqs[r].quantity,
                                                        reqs[r].read)]
    /\ last' = [Call("create_order", reqs[r].user, "", reqs[r].quantity,
                     IF create_order_ret(reqs[r].quantity, reqs[r].read) = -1
                     THEN "insufficient" ELSE "created")
                   EXCEPT !.product = reqs[r].product]
    /\ replies' = << >>
    /\ UNCHANGED <<users, admins, transactions, tickets, user_data, now,
                   broadcasts, initStock,
                   running>>

NextCatalogConc ==
    \/ \E pr \in Prices, st \in 0..MaxStock, c \in Categories :
          AddProduct(pr, st, c)
    \/ \E r \in ReqIds, u \in UserIds, pid \in ProductIds, q \in Quantities :
          OrderRead(r, u, pid, q)
    \/ \E r \in ReqIds : OrderWrite(r)

SpecCatalogConc == Init /\ [][NextCatalogConc]_vars

-----------------------------------------------------------------------------
(* The reply-keyboard labels and the dispatch chain of handle_message *)

\* The chain of `text == ...` tests, lines 692-779, first match wins.
\* Label keys (source line of the test): profile 692, shop 694, wallet 696,
\* games 698, news 700, referral 702, settings 704, support 706, help 708,
\* admin_panel 710, back 712, stats 716, users 718, broadcast 720,
\* bot_settings 722, products 724, tickets 726, add_admin 728,
\* remove_admin 730, cat_digital 734, cat_clothing 736, cat_books 738,
\* cat_gifts 740, dice 744, dart 746, slots 748, trivia 750,
\* leaderboard 752, daily 754, deposit 758, withdraw 760, transactions 762,
\* language 766, notifications 768, edit_profile 770, new_ticket 774,
\* my_tickets 776, cancel 778.
Handler(text) ==
    CASE text = "profile" -> "show_profile"
      [] text = "shop" -> "show_shop"
      [] text = "wallet" -> "show_wallet"
      [] text = "games" -> "show_games"
      [] text = "news" -> "show_news"
      [] text = "referral" -> "show_referral"
      [] text = "settings" -> "show_settings"
      [] text = "support" -> "show_support"
      [] text = "help" -> "show_help"
      [] text = "admin_panel" -> "show_admin_panel"
      [] text = "back" -> "back_to_main"
      [] text = "stats" -> "admin_stats"
      [] text = "users" -> "admin_users"
      [] text = "broadcast" -> "admin_broadcast_start"
      [] text = "bot_settings" -> "admin_settings"
      [] text = "products" -> "admin_products"
      [] text = "tickets" -> "admin_tickets"
      [] text = "add_admin" -> "admin_add_start"
      [] text = "remove_admin" -> "admin_remove_start"
      [] text = "cat_digital" -> "show_category"
      [] text = "cat_clothing" -> "show_category"
      [] text = "cat_books" -> "show_category"
      [] text = "cat_gifts" -> "show_category"
      [] text = "dice" -> "play_dice"
      [] text = "dart" -> "play_dart"
      [] text = "slots" -> "play_slots"
      [] text = "trivia" -> "play_trivia"
      [] text = "leaderboard" -> "show_leaderboard"
      [] text = "daily" -> "claim_daily"
      [] text = "deposit" -> "deposit_start"
      [] text = "withdraw" -> "withdraw_start"
      [] text = "transactions" -> "show_transactions"
      [] text = "language" -> "change_language"
      [] text = "notifications" -> "notification_settings"
      [] text = "edit_profile" -> "edit_profile"
      [] text = "new_ticket" -> "create_ticket_start"
      [] text = "my_tickets" -> "show_my_tickets"
      [] text = "cancel" -> "cancel_operation"
      [] OTHER -> "none"

Labels ==
    {"profile", "shop", "wallet", "games", "news", "referral", "settings",
     "support", "help", "admin_panel", "back", "stats", "users", "broadcast",
     "bot_settings", "products", "tickets", "add_admin", "remove_admin",
     "cat_digital", "cat_clothing", "cat_books", "cat_gifts", "dice", "dart",
     "slots", "trivia", "leaderboard", "daily", "deposit", "withdraw",
     "transactions", "language", "notifications", "edit_profile",
     "new_ticket", "my_tickets", "cancel"}

\* Texts that are no label
FreeTexts == {"my item did not arrive", "12", "x1"}

Texts == Labels \cup FreeTexts

\* The category argument handle_message passes to show_category
CategoryOf(text) ==
    CASE text = "cat_digital" -> "digital"
      [] text = "cat_clothing" -> "clothing"
      [] text = "cat_books" -> "books"
      [] text = "cat_gifts" -> "gifts"
      [] OTHER -> "none"

\* Handlers handle_message names that the module never defines: the call
\* raises NameError
Undefined ==
    {"deposit_start", "withdraw_start", "show_transactions",
     "change_language", "notification_settings", "edit_profile"}

\* The flags of context.user_data that record a pending input
ExpectFlags ==
    {"awaiting_broadcast", "awaiting_admin_id", "removing_admin",
     "creating_ticket"}

Expectations(u) == {f \in ExpectFlags : user_data[u][f]}

\* A router that looks at the pending-input flags before the labels
RouteStateFirst(u, text) ==
    IF Expectations(u) # {} THEN "handle_user_input"
    ELSE IF Handler(text) # "none" THEN Handler(text)
    ELSE "unrecognized"

\* A router that passes a text that is no label to handle_user_input
\* whenever one of the pending-input flags is set
RouteAnyFlag(u, text) ==
    IF Handler(text) # "none" THEN Handler(text)
    ELSE IF Expectations(u) # {} THEN "handle_user_input"
    ELSE "unrecognized"

\* The branch handle_message takes: a label's handler, handle_user_input
\* when user_data holds 'awaiting_input', the default reply otherwise
Route(u, text) ==
    IF Handler(text) # "none" THEN Handler(text)
    ELSE IF user_data[u]["awaiting_input"] THEN "handle_user_input"
    ELSE "unrecognized"

\* int(text): the texts of the model that parse, and their value
ParsesAsInt(text) == text = "12"
IntOf(text) == IF text = "12" THEN 12 ELSE 0

\* The branch handle_user_input takes, by the order of its tests
InputBranch(u) ==
    IF user_data[u]["awaiting_broadcast"] THEN "broadcast"
    ELSE IF user_data[u]["awaiting_admin_id"] THEN "add_admin"
    ELSE IF user_data[u]["creating_ticket"] THEN "ticket"
    ELSE "nothing"

-----------------------------------------------------------------------------
(* The handlers: what one run does to each part of the state *)

\* A version that refreshes last_activity and leaves message_count
update_user_activity_table_nocount(u) ==
    IF users[u] = NoUser THEN users
    ELSE [users EXCEPT ![u].last_activity = now]

\* update_user_activity: the users table after the call
update_user_activity_table(u) ==
    IF users[u] = NoUser THEN users
    ELSE [users EXCEPT ![u].last_activity = now,
                       ![u].message_count = users[u].message_count + 1]

\* A sample of the dice values the transport can report for each game, one
\* for every branch of the handler, and of the points claim_daily can draw
RandomValues(text) ==
    CASE text = "dice" -> {3}
      [] text = "dart" -> {1, 6}
      [] text = "slots" -> {1, 2, 64}
      [] text = "daily" -> {10}
      [] OTHER -> {0}

\* The points a game handler passes to add_points
PointsWon(branch, value) ==
    CASE branch = "play_dice" -> value * 5
      [] branch = "play_dart" -> IF value = 6 THEN 100 ELSE value * 10
      [] branch = "play_slots" ->
            IF value = 64 THEN 500
            ELSE IF value \in {1, 22, 43} THEN 100 ELSE 10
      [] branch = "claim_daily" -> value
      [] OTHER -> 0

\* A version in which the add-admin label sets the flag of the remove-admin
\* label
FlagsAfterSwapped(u, branch) ==
    CASE branch = "admin_broadcast_start" ->
            [user_data[u] EXCEPT !["awaiting_broadcast"] = TRUE]
      [] branch = "admin_add_start" ->
            [user_data[u] EXCEPT !["removing_admin"] = TRUE]
      [] branch = "admin_remove_start" ->
            [user_data[u] EXCEPT !["removing_admin"] = TRUE]
      [] branch = "create_ticket_start" ->
            [user_data[u] EXCEPT !["creating_ticket"] = TRUE]
      [] branch = "cancel_operation" -> NoFlags
      [] OTHER -> user_data[u]

\* A version whose cancel_operation leaves user_data as it is
FlagsAfterNoCancel(u, branch) ==
    CASE branch = "admin_broadcast_start" ->
            [user_data[u] EXCEPT !["awaiting_broadcast"] = TRUE]
      [] branch = "admin_add_start" ->
            [user_data[u] EXCEPT !["awaiting_admin_id"] = TRUE]
      [] branch = "admin_remove_start" ->
            [user_data[u] EXCEPT !["removing_admin"] = TRUE]
      [] branch = "create_ticket_start" ->
            [user_data[u] EXCEPT !["creating_ticket"] = TRUE]
      [] OTHER -> user_data[u]

\* context.user_data of the sender after the handler of `branch`
FlagsAfter(u, branch) ==
    CASE branch = "admin_broadcast_start" ->
            [user_data[u] EXCEPT !["awaiting_broadcast"] = TRUE]
      [] branch = "admin_add_start" ->
            [user_data[u] EXCEPT !["awaiting_admin_id"] = TRUE]
      [] branch = "admin_remove_start" ->
            [user_data[u] EXCEPT !["removing_admin"] = TRUE]
      [] branch = "create_ticket_start" ->
            [user_data[u] EXCEPT !["creating_ticket"] = TRUE]
      [] branch = "cancel_operation" -> NoFlags
      [] branch = "handle_user_input" ->
            ( CASE InputBranch(u) = "broadcast" ->
                      [user_data[u] EXCEPT !["awaiting_broadcast"] = FALSE]
                [] InputBranch(u) = "add_admin" ->
                      [user_data[u] EXCEPT !["awaiting_admin_id"] = FALSE]
                [] InputBranch(u) = "ticket" ->
                      [user_data[u] EXCEPT !["creating_ticket"] = FALSE]
                [] OTHER -> user_data[u] )
      [] OTHER -> user_data[u]

\* A version that keeps the flags in one dictionary shared by all users
UserDataAfterShared(u, branch) ==
    [v \in UserIds |-> FlagsAfter(u, branch)]

\* context.user_data of every user after the handler of `branch` has run
\* for sender u: the dictionary is the sender's own
UserDataAfter(u, branch) ==
    [user_data EXCEPT ![u] = FlagsAfter(u, branch)]

\* A version with INSERT OR IGNORE, as init_database has it: an existing
\* row is kept
add_admin_table_ignore(admin_id, added_by, level) ==
    IF admin_id \in DOMAIN admins /\ admins[admin_id] = NoGrant
    THEN [admins EXCEPT ![admin_id] = [added_by |-> added_by, level |-> level]]
    ELSE admins

\* add_admin: INSERT OR REPLACE of the row of admin_id
add_admin_table(admin_id, added_by, level) ==
    IF admin_id \in DOMAIN admins
    THEN [admins EXCEPT ![admin_id] = [added_by |-> added_by, level |-> level]]
    ELSE admins

\* remove_admin: DELETE of the row of admin_id
remove_admin_table(admin_id) ==
    IF admin_id \in DOMAIN admins
    THEN [admins EXCEPT ![admin_id] = NoGrant]
    ELSE admins

\* The admins table after the handler of `branch`
AdminsAfter(u, branch, text) ==
    IF /\ branch = "handle_user_input"
       /\ InputBranch(u) = "add_admin"
       /\ ParsesAsInt(text)
    THEN add_admin_table(IntOf(text), u, 1)
    ELSE admins

\* create_ticket: the row inserted, status by the column default
TicketRow(u, subject, message) ==
    [user_id |-> u, subject |-> subject, message |-> message,
     status |-> "open"]

\* The tickets table after the handler of `branch`
TicketsAfter(u, branch, text) ==
    IF branch = "handle_user_input" /\ InputBranch(u) = "ticket"
    THEN Append(tickets, TicketRow(u, "support", text))
    ELSE tickets

\* process_broadcast: one delivery attempt per row of users, `failed` being
\* the recipients whose send_message raises; `report` holds the figures of
\* the final status message, which are the counter `sent` alone
BroadcastRun(u, text, tbl, failed) ==
    LET recipients == {v \in UserIds : tbl[v] # NoUser} IN
    [by |-> u, text |-> text, attempted |-> Cardinality(recipients),
     sent |-> Cardinality(recipients \ failed),
     report |-> [field \in {"sent"} |-> Cardinality(recipients \ failed)]]

\* The completed broadcast runs after the handler of `branch`
BroadcastsAfter(u, branch, text, tbl, failed) ==
    IF branch = "handle_user_input" /\ InputBranch(u) = "broadcast"
    THEN Append(broadcasts, BroadcastRun(u, text, tbl, failed))
    ELSE broadcasts

\* The handler raises before it replies: an undefined name, or a subscript
\* of the None that get_user returns for an unknown id
Raises(u, branch, tbl) ==
    \/ branch \in Undefined
    \/ branch \in {"show_wallet", "show_referral"} /\ tbl[u] = NoUser

ActiveInCategory(category) ==
    {p \in ProductIds : /\ products[p] # NoProduct
                        /\ products[p].is_active
                        /\ products[p].category = category}

\* The payloads the handler of `branch` sends to the sender, in order
RepliesOf(u, branch, text, tbl) ==
    CASE Raises(u, branch, tbl) -> << >>
      [] branch = "show_profile" ->
            IF tbl[u] = NoUser THEN <<"load_error">> ELSE <<"profile">>
      [] branch = "show_admin_panel" ->
            IF ~is_admin(u) THEN <<"denied">> ELSE <<"admin_panel">>
      [] branch = "show_category" ->
            IF ActiveInCategory(CategoryOf(text)) = {}
            THEN <<"no_products">>
            ELSE [i \in 1..Cardinality(ActiveInCategory(CategoryOf(text)))
                    |-> "product"]
      [] branch \in {"play_dice", "play_dart", "play_slots"} ->
            <<"rolling", "dice", "game_result">>
      [] branch = "show_my_tickets" ->
            IF \E i \in 1..Len(tickets) : tickets[i].user_id = u
            THEN <<"my_tickets">> ELSE <<"no_tickets">>
      [] branch = "handle_user_input" ->
            ( CASE InputBranch(u) = "broadcast" ->
                      <<"sending", "broadcast_report">>
                [] InputBranch(u) = "add_admin" ->
                      IF ParsesAsInt(text) THEN <<"promoted">>
                      ELSE <<"invalid_id">>
                [] InputBranch(u) = "ticket" -> <<"ticket_created">>
                [] OTHER -> << >> )
      [] OTHER -> <<branch>>

\* handle_message(update, context) for a text message of user u
HandleMessage(u, text, value, failed) ==
    /\ now < MaxEvents
    /\ now' = now + 1
    /\ LET tbl == update_user_activity_table(u)
           branch == Route(u, text)
       IN IF tbl[u] # NoUser /\ tbl[u].is_banned
          THEN /\ users' = tbl
               /\ replies' = <<"banned">>
               /\ last' = Call("handle_message", u, text, 0, "banned")
               /\ UNCHANGED <<admins, tickets, user_data, broadcasts>>
          ELSE /\ users' = add_points_table(tbl, u, PointsWon(branch, value))
               /\ admins' = AdminsAfter(u, branch, text)
               /\ tickets' = TicketsAfter(u, branch, text)
               /\ broadcasts' = BroadcastsAfter(u, branch, text, tbl, failed)
               /\ user_data' = UserDataAfter(u, branch)
               /\ replies' = RepliesOf(u, branch, text, tbl)
               /\ last' = [Call("handle_message", u, text, 0, branch)
                               EXCEPT !.raised = Raises(u, branch, tbl)]
    /\ UNCHANGED <<products, orders, transactions, reqs, initStock,
                   running>>

\* start(update, context): the /start command of user u
Start(u, suffix) ==
    /\ now < MaxEvents
    /\ now' = now + 1
    /\ LET tbl == add_user_table(u, suffix)
           is_new == add_user_is_new(u, suffix)
       IN IF tbl[u] # NoUser /\ tbl[u].is_banned
          THEN /\ users' = tbl
               /\ replies' = <<"banned">>
               /\ last' = Call("start", u, "", 0, "banned")
          ELSE /\ users' = IF is_new THEN add_points_table(tbl, u, 10) ELSE tbl
               /\ replies' = IF is_new THEN <<"welcome_bonus", "welcome">>
                             ELSE <<"welcome">>
               /\ last' = Call("start", u, "", 0,
                               IF is_new THEN "new" ELSE "known")
    /\ UNCHANGED <<admins, products, orders, transactions, tickets, user_data,
                   broadcasts, reqs, initStock,
                   running>>

\* The program as main() runs it: /start and text messages, and ban_user
\* applied to the store
Next ==
    \/ \E u \in UserIds, s \in StartSuffixes : Start(u, s)
    \/ \E u \in UserIds, text \in Texts :
          \E value \in RandomValues(text),
             failed \in (IF Route(u, text) = "handle_user_input"
                         THEN SUBSET UserIds ELSE {{}}) :
                HandleMessage(u, text, value, failed)
    \/ \E u \in UserIds, ban \in BOOLEAN : BanUser(u, ban)

Spec == Init /\ [][Next]_vars

-----------------------------------------------------------------------------
(* DatabaseManager: admin grants, called on their own *)

Levels == {0, 1, 2, 3}

\* add_admin(admin_id, added_by, level)
AddAdmin(admin_id, added_by, level) ==
    /\ admins' = add_admin_table(admin_id, added_by, level)
    /\ last' = [Call("add_admin", admin_id, "", level, "ok")
                   EXCEPT !.by = added_by]
    /\ replies' = << >>
    /\ UNCHANGED <<users, products, orders, transactions, tickets, user_data,
                   now, broadcasts, reqs, initStock,
                   running>>

\* remove_admin(admin_id)
RemoveAdmin(admin_id) ==
    /\ admins' = remove_admin_table(admin_id)
    /\ last' = Call("remove_admin", admin_id, "", 0, "ok")
    /\ replies' = << >>
    /\ UNCHANGED <<users, products, orders, transactions, tickets, user_data,
                   now, broadcasts, reqs, initStock,
                   running>>

NextAdmin ==
    \/ \E a \in UserIds, g \in UserIds, l \in Levels : AddAdmin(a, g, l)
    \/ \E a \in UserIds : RemoveAdmin(a)

SpecAdmin == Init /\ [][NextAdmin]_vars

-----------------------------------------------------------------------------
(* process_broadcast, called on its own over the accounts add_user made *)

MaxBroadcasts == 2

BroadcastTexts == {"hello"}

\* process_broadcast(update, context, text)
ProcessBroadcast(u, text, failed) ==
    /\ Len(broadcasts) < MaxBroadcasts
    /\ broadcasts' = Append(broadcasts, BroadcastRun(u, text, users, failed))
    /\ last' = Call("process_broadcast", u, text, 0, "ok")
    /\ replies' = <<"broadcast_sending", "broadcast_done">>
    /\ UNCHANGED <<users, admins, products, orders, transactions, tickets,
                   user_data, now, reqs, initStock,
                   running>>

NextBroadcast ==
    \/ \E u \in UserIds, s \in Suffixes : AddUser(u, s)
    \/ \E u \in UserIds, text \in BroadcastTexts, failed \in SUBSET UserIds :
          ProcessBroadcast(u, text, failed)

SpecBroadcast == Init /\ [][NextBroadcast]_vars

-----------------------------------------------------------------------------
(* DatabaseManager: add_points, called on its own *)

MaxPoints == 30

Deltas == {-20, -10, 10}

\* add_points(user_id, points); MaxPoints caps the magnitude the points reach
AddPoints(u, points) ==
    /\ users[u] # NoUser =>
          Abs(users[u].points + points) <= MaxPoints
    /\ users' = add_points_table(users, u, points)
    /\ last' = Call("add_points", u, "", points, "ok")
    /\ replies' = << >>
    /\ UNCHANGED <<admins, products, orders, transactions, tickets, user_data,
                   now, broadcasts, reqs, initStock,
                   running>>

NextPoints ==
    \/ \E u \in UserIds, s \in StartSuffixes : AddUser(u, s)
    \/ \E u \in UserIds, d \in Deltas : AddPoints(u, d)

SpecPoints == Init /\ [][NextPoints]_vars

-----------------------------------------------------------------------------
(* get_connection: a transaction in which a statement can fail *)

\* An exit that commits whatever the statements have written so far
get_connection_exit_commit(before, pending, raised) ==
    pending

\* get_connection on exit of the with block: commit, or rollback when the
\* block raised
get_connection_exit(before, pending, raised) ==
    IF raised THEN before ELSE pending

\* The statement of update_balance that raises, if any
Faults == {"none", "update", "insert"}

\* update_balance up to the exit of its with block: what the connection has
\* written, and whether a statement raised
update_balance_pending(u, amount, fault) ==
    IF update_balance_ret(u, amount) # "accepted"
    THEN [users |-> users, transactions |-> transactions, raised |-> FALSE]
    ELSE IF fault = "update"
    THEN [users |-> users, transactions |-> transactions, raised |-> TRUE]
    ELSE IF fault = "insert"
    THEN [users |-> update_balance_users(u, amount),
          transactions |-> transactions, raised |-> TRUE]
    ELSE [users |-> update_balance_users(u, amount),
          transactions |-> update_balance_transactions(u, amount),
          raised |-> FALSE]

\* update_balance(user_id, amount) with the statement `fault` raising
UpdateBalanceFaulty(u, amount, fault) ==
    /\ Len(transactions) < MaxTxns
    /\ LET p == update_balance_pending(u, amount, fault) IN
        /\ users' = get_connection_exit(users, p.users, p.raised)
        /\ transactions' =
              get_connection_exit(transactions, p.transactions, p.raised)
        /\ last' = [Call("update_balance", u, fault, amount,
                         IF p.raised THEN "raised"
                         ELSE update_balance_ret(u, amount))
                       EXCEPT !.raised = p.raised]
    /\ replies' = << >>
    /\ UNCHANGED <<admins, products, orders, tickets, user_data, now,
                   broadcasts, reqs, initStock,
                   running>>

NextTxn ==
    \/ \E u \in UserIds, s \in StartSuffixes : AddUser(u, s)
    \/ \E u \in UserIds, a \in Amounts, fault \in Faults :
          UpdateBalanceFaulty(u, a, fault)

SpecTxn == Init /\ [][NextTxn]_vars

-----------------------------------------------------------------------------
(* The application: one update handled at a time, and process_broadcast run
   delivery by delivery *)

\* The texts of the traffic that meets a broadcast
DispatchTexts == {"cancel", "profile", "x1"}

\* main() builds the Application without concurrent_updates and registers
\* its handlers blocking: an update is taken only when the handler of the
\* one before has returned
DispatcherFree == running.pc = "idle"

\* process_broadcast up to its loop: the users are enumerated once and the
\* status message is sent
ProcessBroadcastBegin(u, text) ==
    /\ DispatcherFree
    /\ Len(broadcasts) < MaxBroadcasts
    /\ running' = [pc |-> "sending", by |-> u, text |-> text,
                   todo |-> {v \in UserIds : users[v] # NoUser},
                   attempted |-> 0, sent |-> 0]
    /\ last' = Call("process_broadcast", u, text, 0, "started")
    /\ replies' = <<"broadcast_sending">>
    /\ UNCHANGED <<users, admins, products, orders, transactions, tickets,
                   user_data, now, broadcasts, reqs, initStock>>

\* A loop body that leaves the loop when send_message raises
SendMessageAbort(v, ok) ==
    /\ running.pc = "sending"
    /\ v \in running.todo
    /\ running' = IF ok
                  THEN [running EXCEPT !.todo = running.todo \ {v},
                                       !.attempted = running.attempted + 1,
                                       !.sent = running.sent + 1]
                  ELSE NoRun
    /\ last' = Call("send_message", v, running.text, 0,
                    IF ok THEN "sent" ELSE "failed")
    /\ replies' = << >>
    /\ UNCHANGED <<users, admins, products, orders, transactions, tickets,
                   user_data, now, broadcasts, reqs, initStock>>

\* One pass of the loop: send_message to the next user, counted in `sent`
\* when it returns, passed over when it raises, then the pacing sleep
SendMessage(v, ok) ==
    /\ running.pc = "sending"
    /\ v \in running.todo
    /\ running' = [running EXCEPT !.todo = running.todo \ {v},
                                  !.attempted = running.attempted + 1,
                                  !.sent = running.sent + (IF ok THEN 1 ELSE 0)]
    /\ last' = Call("send_message", v, running.text, 0,
                    IF ok THEN "sent" ELSE "failed")
    /\ replies' = << >>
    /\ UNCHANGED <<users, admins, products, orders, transactions, tickets,
                   user_data, now, broadcasts, reqs, initStock>>

\* The end of the loop: the status message is edited into the report
ProcessBroadcastEnd ==
    /\ running.pc = "sending"
    /\ running.todo = {}
    /\ broadcasts' = Append(broadcasts,
                            [by |-> running.by, text |-> running.text,
                             attempted |-> running.attempted,
                             sent |-> running.sent,
                             report |-> [field \in {"sent"} |-> running.sent]])
    /\ running' = NoRun
    /\ last' = Call("process_broadcast", running.by, running.text, 0, "ok")
    /\ replies' = <<"broadcast_done">>
    /\ UNCHANGED <<users, admins, products, orders, transactions, tickets,
                   user_data, now, reqs, initStock>>

\* /start taken from the update queue
DispatchStart(u, suffix) ==
    /\ DispatcherFree
    /\ Start(u, suffix)

\* A text message taken from the update queue
DispatchMessage(u, text) ==
    /\ DispatcherFree
    /\ HandleMessage(u, text, 0, {})

BroadcastStep ==
    \/ \E v \in UserIds, ok \in BOOLEAN : SendMessage(v, ok)
    \/ ProcessBroadcastEnd

NextDispatch ==
    \/ \E u \in UserIds, s \in StartSuffixes : DispatchStart(u, s)
    \/ \E u \in UserIds, text \in DispatchTexts : DispatchMessage(u, text)
    \/ \E u \in UserIds, text \in BroadcastTexts :
          ProcessBroadcastBegin(u, text)
    \/ BroadcastStep

SpecDispatch == Init /\ [][NextDispatch]_vars

\* The loop of process_broadcast goes on: send_message returns or raises,
\* and the sleep returns
SpecDispatchFair == SpecDispatch /\ WF_vars(BroadcastStep)

-----------------------------------------------------------------------------
(* Properties of the ledger *)

\* C1: after any sequence of update_balance calls with any signed amounts no
\* account has a negative balance, and a call whose resulting balance would
\* be negative is rejected and leaves the balance as it was.
C1_BalanceNeverNegative ==
    [][ /\ \A u \in UserIds :
              users'[u] # NoUser => users'[u].balance >= 0
        /\ \A u \in UserIds :
              ( /\ last'.op = "update_balance"
                /\ last'.user = u
                /\ users[u] # NoUser
                /\ users[u].balance + last'.amount < 0 )
              => ( /\ last'.ret = "rejected"
                   /\ users'[u] # NoUser
                   /\ users'[u].balance = users[u].balance ) ]_vars

\* A debit larger than a positive balance has been rejected
C1_Witness ==
    /\ last.op = "update_balance"
    /\ last.ret = "rejected"
    /\ users[last.user].balance > 0
    /\ users[last.user].balance + last.amount < 0

\* C2: a rejected update_balance (the new balance would be negative) appends
\* no ledger entry and changes no field of any account.
C2_RejectedChangesNothing ==
    [][ \A u \in UserIds :
          ( /\ last'.op = "update_balance"
            /\ last'.user = u
            /\ users[u] # NoUser
            /\ users[u].balance + last'.amount < 0 )
          => ( /\ transactions' = transactions
               /\ users' = users ) ]_vars

\* Scenario A: balance 30, one ledger entry, a debit of 50 has been rejected
C2_Witness ==
    /\ last.op = "update_balance"
    /\ last.ret = "rejected"
    /\ last.amount = -50
    /\ users[last.user].balance = 30
    /\ Len(transactions) = 1

-----------------------------------------------------------------------------
(* Properties of the catalog *)

RECURSIVE SumQuantities(_, _)
\* The sum of the quantities of the first n orders that are for product pid
SumQuantities(pid, n) ==
    IF n = 0 THEN 0
    ELSE SumQuantities(pid, n - 1)
         + (IF orders[n].product_id = pid THEN orders[n].quantity ELSE 0)

\* C3: for every sequence of create_order calls on a product, run one after
\* the other with any quantities, the stock is never negative and the
\* quantities of the orders created sum to at most the initial stock.
C3_StockNeverNegative ==
    \A pid \in ProductIds :
        products[pid] # NoProduct =>
            /\ products[pid].stock >= 0
            /\ SumQuantities(pid, Len(orders)) <= initStock[pid]

\* An order has been created and a later call refused for lack of stock
C3_Witness ==
    /\ last.op = "create_order"
    /\ last.ret = "insufficient"
    /\ last.amount > 0
    /\ \E pid \in ProductIds :
          /\ products[pid] # NoProduct
          /\ products[pid].stock < last.amount
          /\ SumQuantities(pid, Len(orders)) > 0

\* C4: two create_order requests of quantity 1 that run concurrently on a
\* product added with stock 1 end with exactly one order id, one refusal and
\* stock 0.
C4_OneOfTwoSucceeds ==
    \A pid \in ProductIds :
        ( /\ products[pid] # NoProduct
          /\ initStock[pid] = 1
          /\ \A r \in ReqIds : /\ reqs[r].pc = "done"
                               /\ reqs[r].product = pid
                               /\ reqs[r].quantity = 1 )
        => ( /\ Cardinality({r \in ReqIds : reqs[r].ret # -1}) = 1
             /\ Cardinality({r \in ReqIds : reqs[r].ret = -1}) = 1
             /\ products[pid].stock = 0 )

-----------------------------------------------------------------------------
(* Properties of the router and of the session flags *)

\* The step is handle_message run for a text of user u who is not banned
Handled(u) ==
    /\ last'.op = "handle_message"
    /\ last'.user = u
    /\ last'.ret # "banned"

\* The flag each start label sets
StartFlag(text) ==
    CASE text = "broadcast" -> "awaiting_broadcast"
      [] text = "add_admin" -> "awaiting_admin_id"
      [] text = "remove_admin" -> "removing_admin"
      [] text = "new_ticket" -> "creating_ticket"
      [] OTHER -> "none"

\* C5: a user who is not banned, whose only pending input is the ticket
\* body and who sends a text that is no label gets a ticket with that text
\* as body and status open, and no input is pending afterwards.
C5_TicketFromFreeText ==
    [][ \A u \in UserIds :
          ( /\ Handled(u)
            /\ Expectations(u) = {"creating_ticket"}
            /\ last'.text \notin Labels )
          => ( /\ Len(tickets') = Len(tickets) + 1
               /\ tickets'[Len(tickets')].user_id = u
               /\ tickets'[Len(tickets')].message = last'.text
               /\ tickets'[Len(tickets')].status = "open"
               /\ \A f \in ExpectFlags : ~user_data'[u][f] ) ]_vars

\* C6: when a user with a pending input sends a label, the branch of that
\* label is the one taken and the text is not consumed as the pending
\* input: no broadcast, no admin grant or revoke and no ticket comes of it.
C6_LabelPreempts ==
    [][ \A u \in UserIds :
          ( /\ Handled(u)
            /\ Expectations(u) # {}
            /\ last'.text \in Labels )
          => ( /\ last'.ret = Handler(last'.text)
               /\ broadcasts' = broadcasts
               /\ admins' = admins
               /\ tickets' = tickets ) ]_vars

\* A user with a ticket body pending has sent the profile label and got the
\* profile handler
C6_Witness ==
    /\ last.op = "handle_message"
    /\ last.text = "profile"
    /\ last.ret = "show_profile"
    /\ user_data[last.user]["creating_ticket"]
    /\ tickets = << >>

\* C7: a user with a pending input who sends a label has no pending input
\* afterwards, or only the one of that label when it is a start label.
C7_LabelExitsPending ==
    [][ \A u \in UserIds :
          ( /\ Handled(u)
            /\ Expectations(u) # {}
            /\ last'.text \in Labels )
          => ( {f \in ExpectFlags : user_data'[u][f]}
                  = {StartFlag(last'.text)} \cap ExpectFlags ) ]_vars

\* C8: no user ever has two pending inputs at once.
C8_OneExpectation ==
    \A u \in UserIds : Cardinality(Expectations(u)) <= 1

\* C9: a text from a banned account gets the one rejection payload and
\* changes nothing else: not the account's counters, not the session, the
\* ledger, the catalog or the admin grants.
C9_BannedNoSideEffect ==
    [][ \A u \in UserIds :
          ( /\ last'.op = "handle_message"
            /\ last'.user = u
            /\ users[u] # NoUser
            /\ users[u].is_banned )
          => ( /\ replies' = <<"banned">>
               /\ users' = users
               /\ user_data' = user_data
               /\ transactions' = transactions
               /\ products' = products
               /\ orders' = orders
               /\ admins' = admins ) ]_vars

\* The handlers behind the labels of the admin keyboard
AdminHandlers ==
    {"show_admin_panel", "admin_stats", "admin_users", "admin_broadcast_start",
     "admin_settings", "admin_products", "admin_tickets", "admin_add_start",
     "admin_remove_start"}

\* C10: an admin-only handler run for a caller who is no admin replies with
\* the permission-denied payload and changes nothing, the caller's pending
\* inputs included.
C10_AdminHandlersRecheck ==
    [][ \A u \in UserIds :
          ( /\ Handled(u)
            /\ ~is_admin(u)
            /\ Handler(last'.text) \in AdminHandlers )
          => ( /\ replies' = <<"denied">>
               /\ user_data' = user_data
               /\ admins' = admins
               /\ tickets' = tickets
               /\ broadcasts' = broadcasts ) ]_vars

-----------------------------------------------------------------------------
(* Properties of the admin grants *)

\* C11: a grant leaves exactly the row (granted-by, level) for the id,
\* whatever row the id had before, so that repeating it changes nothing; a
\* revoke leaves no row for the id and touches no other, succeeds when the id
\* has no grant and then leaves the table as it was.
C11_GrantRevokeIdempotent ==
    [][ /\ last'.op = "add_admin" =>
              admins' = [admins EXCEPT ![last'.user] =
                            [added_by |-> last'.by, level |-> last'.amount]]
        /\ last'.op = "remove_admin" =>
              /\ last'.ret = "ok"
              /\ admins' = [admins EXCEPT ![last'.user] = NoGrant]
              /\ admins[last'.user] = NoGrant => admins' = admins ]_vars

\* The grant of init_database for id 1 has been replaced by a later grant
C11_Witness ==
    /\ last.op = "add_admin"
    /\ last.user = 1
    /\ last.by = 12
    /\ admins[1] = [added_by |-> 12, level |-> 1]

-----------------------------------------------------------------------------
(* Properties of account creation *)

Range(s) == {s[i] : i \in DOMAIN s}

\* C12: the welcome bonus is given in exactly the step that creates the
\* account, which then holds 10 points; an account is never removed, so the
\* step cannot recur, and a later /start of the same user leaves the points
\* as they are.
C12_WelcomeBonusOnce ==
    [][ \A u \in UserIds :
          LET created == users[u] = NoUser /\ users'[u] # NoUser
              bonus == /\ last'.op = "start"
                       /\ last'.user = u
                       /\ "welcome_bonus" \in Range(replies')
          IN /\ created <=> bonus
             /\ created => users'[u].points = 10
             /\ users[u] # NoUser => users'[u] # NoUser
             /\ (users[u] # NoUser /\ last'.op = "start" /\ last'.user = u)
                   => users'[u].points = users[u].points ]_vars

\* A second /start of a user whose only points are the bonus
C12_Witness ==
    /\ last.op = "start"
    /\ last.ret = "known"
    /\ users[last.user] # NoUser
    /\ users[last.user].points = 10

\* C13: after a text message of a user, the user has an account with a
\* referral code.
C13_RouterCreatesAccount ==
    last.op = "handle_message" =>
        /\ users[last.user] # NoUser
        /\ users[last.user].referral_code # ""

\* C15: two distinct accounts never hold the same referral code, and add_user
\* for an id without account creates the account whatever suffix is drawn and
\* whatever codes the other accounts hold.
C15_ReferralCodesDistinct ==
    [][ /\ \A u, v \in UserIds :
              (u # v /\ users'[u] # NoUser /\ users'[v] # NoUser)
                 => users'[u].referral_code # users'[v].referral_code
        /\ (last'.op = "add_user" /\ users[last'.user] = NoUser)
              => /\ users'[last'.user] # NoUser
                 /\ last'.ret = "new" ]_vars

\* Ids 1 and 12 hold codes whose digits after REF are the same
C15_Witness ==
    /\ users[1] # NoUser
    /\ users[12] # NoUser
    /\ users[1].referral_code = "REF12AAAAA"
    /\ users[12].referral_code = "REF12AAAAAA"

-----------------------------------------------------------------------------
(* Properties of the broadcast *)

\* C14: a completed broadcast has attempted one delivery per account, and its
\* report gives the number attempted, equal to the number of accounts, and
\* the number delivered, equal to the number of deliveries that succeeded.
C14_BroadcastReport ==
    \A i \in 1..Len(broadcasts) :
        LET run == broadcasts[i] IN
        /\ run.attempted >= run.sent
        /\ "attempted" \in DOMAIN run.report
        /\ run.report["attempted"] = run.attempted
        /\ "delivered" \in DOMAIN run.report
        /\ run.report["delivered"] = run.sent

-----------------------------------------------------------------------------
(* Properties of the orders *)

\* C16: the order a successful create_order appends has total_price equal to
\* the product's price at that moment times the ordered quantity, and every
\* step of the program leaves the orders that exist exactly as they are.
C16_TotalPriceFixed ==
    [][ /\ \A i \in 1..Len(orders) :
              i <= Len(orders') /\ orders'[i] = orders[i]
        /\ (last'.op = "create_order" /\ last'.ret = "created") =>
              /\ Len(orders') = Len(orders) + 1
              /\ LET order == orders'[Len(orders')] IN
                    /\ order.product_id = last'.product
                    /\ order.quantity = last'.amount
                    /\ order.total_price =
                          products[last'.product].price * last'.amount ]_vars

\* An order of two units at 20 each, followed by another order
C16_Witness ==
    /\ Len(orders) = 2
    /\ orders[1].quantity = 2
    /\ orders[1].total_price = 40

\* C17: every order has a quantity above zero and at most the stock the
\* product had when it was added.
C17_QuantityPositive ==
    \A i \in 1..Len(orders) :
        /\ orders[i].quantity > 0
        /\ orders[i].quantity <= initStock[orders[i].product_id]

\* C18: create_order for a product that does not exist, or whose stock is
\* below the quantity, fails and leaves orders and products as they were.
C18_FailedOrderWritesNothing ==
    [][ ( /\ last'.op = "create_order"
          /\ \/ products[last'.product] = NoProduct
             \/ products[last'.product].stock < last'.amount )
        => ( /\ last'.ret = "insufficient"
             /\ orders' = orders
             /\ products' = products ) ]_vars

\* An order for more than the stock that is left after an earlier order
C18_Witness ==
    /\ last.op = "create_order"
    /\ last.ret = "insufficient"
    /\ Len(orders) = 1
    /\ products[last.product] # NoProduct
    /\ products[last.product].stock < last.amount

-----------------------------------------------------------------------------
(* Properties of the points and of the ledger entries *)

\* C19: the points of an account are never negative, and add_points with a
\* delta that would take them below zero leaves them as they were.
C19_PointsNeverNegative ==
    [][ \A u \in UserIds :
          users'[u] # NoUser =>
             /\ users'[u].points >= 0
             /\ ( /\ last'.op = "add_points" /\ last'.user = u
                  /\ users[u] # NoUser
                  /\ users[u].points + last'.amount < 0 )
                   => users'[u].points = users[u].points ]_vars

\* C20: an accepted update_balance appends one entry whose amount is above
\* zero and is the absolute value of the signed amount, with type credit for
\* a positive and debit for a negative signed amount.
C20_LedgerEntryPositive ==
    [][ (last'.op = "update_balance" /\ last'.ret = "accepted") =>
          /\ Len(transactions') = Len(transactions) + 1
          /\ LET entry == transactions'[Len(transactions')] IN
                /\ entry.user_id = last'.user
                /\ entry.amount > 0
                /\ entry.amount = Abs(last'.amount)
                /\ last'.amount > 0 => entry.type = "credit"
                /\ last'.amount < 0 => entry.type = "debit" ]_vars

-----------------------------------------------------------------------------
(* Properties of the pending inputs *)

\* C21: a user whose pending input is the id of a new admin and who sends a
\* text that is no label: when the text is an integer, that id holds a grant
\* given by the sender; when it is not, the reply is the invalid-id payload
\* and the grants are as they were; no input is pending afterwards.
C21_NewAdminIdConsumed ==
    [][ \A u \in UserIds :
          ( /\ Handled(u)
            /\ Expectations(u) = {"awaiting_admin_id"}
            /\ last'.text \notin Labels )
          => ( /\ IF ParsesAsInt(last'.text)
                  THEN /\ admins'[IntOf(last'.text)] # NoGrant
                       /\ admins'[IntOf(last'.text)].added_by = u
                  ELSE /\ replies' = <<"invalid_id">>
                       /\ admins' = admins
               /\ \A f \in ExpectFlags : ~user_data'[u][f] ) ]_vars

\* C22: a user whose pending input is the id of the admin to remove and who
\* sends a text that is no label: when the text is an integer, that id holds
\* no grant afterwards; when it is not, the reply is the invalid-id payload
\* and the grants are as they were; no input is pending afterwards.
C22_RemoveAdminIdConsumed ==
    [][ \A u \in UserIds :
          ( /\ Handled(u)
            /\ Expectations(u) = {"removing_admin"}
            /\ last'.text \notin Labels )
          => ( /\ IF ParsesAsInt(last'.text)
                  THEN admins'[IntOf(last'.text)] = NoGrant
                  ELSE /\ replies' = <<"invalid_id">>
                       /\ admins' = admins
               /\ \A f \in ExpectFlags : ~user_data'[u][f] ) ]_vars

\* C23: a user whose pending input is the body of a broadcast and who sends
\* a text that is no label gets one broadcast run with that text, and no
\* input is pending afterwards.
C23_BroadcastBodyConsumed ==
    [][ \A u \in UserIds :
          ( /\ Handled(u)
            /\ Expectations(u) = {"awaiting_broadcast"}
            /\ last'.text \notin Labels )
          => ( /\ Len(broadcasts') = Len(broadcasts) + 1
               /\ broadcasts'[Len(broadcasts')].by = u
               /\ broadcasts'[Len(broadcasts')].text = last'.text
               /\ \A f \in ExpectFlags : ~user_data'[u][f] ) ]_vars

\* C24: a user with no pending input gets one only in a step that handles a
\* start label sent by that user, and the pending input is then the one of
\* that label alone.
C24_PendingOnlyFromStartLabel ==
    [][ \A u \in UserIds :
          ( /\ Expectations(u) = {}
            /\ \E f \in ExpectFlags : user_data'[u][f] )
          => ( /\ Handled(u)
               /\ StartFlag(last'.text) \in ExpectFlags
               /\ {f \in ExpectFlags : user_data'[u][f]}
                     = {StartFlag(last'.text)} ) ]_vars

\* The add-admin label has set its flag for a user who had no pending input
C24_Witness ==
    /\ last.op = "handle_message"
    /\ last.text = "add_admin"
    /\ Expectations(last.user) = {"awaiting_admin_id"}

\* C25: the cancel label sent with an input pending leaves no input pending
\* and causes no broadcast, grant, revoke or ticket; a text that is no label,
\* sent with no input pending, gets the default reply.
C25_CancelReturnsToIdle ==
    [][ \A u \in UserIds :
          /\ ( /\ Handled(u)
               /\ Expectations(u) # {}
               /\ last'.text = "cancel" )
             => ( /\ \A f \in ExpectFlags : ~user_data'[u][f]
                  /\ replies' = <<"cancel_operation">>
                  /\ broadcasts' = broadcasts
                  /\ admins' = admins
                  /\ tickets' = tickets )
          /\ ( /\ Handled(u)
               /\ Expectations(u) = {}
               /\ last'.text \notin Labels )
             => ( /\ replies' = <<"unrecognized">>
                  /\ broadcasts' = broadcasts
                  /\ admins' = admins
                  /\ tickets' = tickets ) ]_vars

\* User 1 has cancelled after two earlier events, while the ticket body of
\* user 12 is still pending
C25_Witness ==
    /\ last.op = "handle_message"
    /\ last.user = 1
    /\ last.text = "cancel"
    /\ now = 3
    /\ replies = <<"cancel_operation">>
    /\ Expectations(1) = {}
    /\ Expectations(12) = {"creating_ticket"}

C27_EveryLabelHandled ==
    [][ \A u \in UserIds :
          ( /\ Handled(u)
            /\ users[u] # NoUser
            /\ last'.text \in Labels )
          => ( /\ ~last'.raised
               /\ replies' # << >> ) ]_vars

-----------------------------------------------------------------------------
(* Properties of the transactions of the store *)

\* C28: update_balance changes the balance and appends the ledger entry
\* together or does neither, and a call in which a statement raises leaves
\* both tables as they were.
C28_BalanceAndEntryTogether ==
    [][ last'.op = "update_balance" =>
          LET u == last'.user
              entryAdded == transactions' # transactions
          IN /\ last'.raised =>
                   (users' = users /\ transactions' = transactions)
             /\ users' # users => entryAdded
             /\ entryAdded =>
                   /\ Len(transactions') = Len(transactions) + 1
                   /\ users' = [users EXCEPT
                                   ![u].balance = users[u].balance
                                                     + last'.amount] ]_vars

\* A credit of 30 whose INSERT raised: the balance is still 0
C28_Witness ==
    /\ last.op = "update_balance"
    /\ last.text = "insert"
    /\ last.raised
    /\ last.amount = 30
    /\ users[last.user] # NoUser
    /\ users[last.user].balance = 0
    /\ transactions = << >>

-----------------------------------------------------------------------------
(* Properties of a broadcast in progress *)

\* C29: a broadcast that has started reaches the end of its users and emits
\* its report, whatever deliveries fail.
C29_BroadcastCompletes ==
    \A n \in 0..(MaxBroadcasts - 1) :
        (running.pc = "sending" /\ Len(broadcasts) = n)
           ~> (running.pc = "idle" /\ Len(broadcasts) = n + 1)

\* A completed run over two accounts of which one delivery failed
C29_Witness ==
    /\ Len(broadcasts) = 1
    /\ broadcasts[1].attempted = 2
    /\ broadcasts[1].sent = 1
    /\ replies = <<"broadcast_done">>

\* C30: between two deliveries of a broadcast a text of another user can be
\* handled.
C30_TrafficDuringBroadcast ==
    ( /\ running.pc = "sending"
      /\ running.attempted >= 1
      /\ running.todo # {}
      /\ now < MaxEvents )
    => ENABLED (\E u \in UserIds \ {running.by}, text \in DispatchTexts :
                   DispatchMessage(u, text))

-----------------------------------------------------------------------------
(* Properties across users *)

\* C31: a step caused by one user leaves the pending inputs of every other
\* user as they were, and a text of a user is passed on as a pending input
\* only when that user has a pending input of their own.
C31_SessionPerUser ==
    [][ \A u \in UserIds :
          /\ last'.user # u => user_data'[u] = user_data[u]
          /\ ( /\ Handled(u)
               /\ last'.ret = "handle_user_input" )
             => Expectations(u) # {} ]_vars

\* User 12 has cancelled while the broadcast body of user 1 is pending
C31_Witness ==
    /\ last.op = "handle_message"
    /\ last.user = 12
    /\ last.text = "cancel"
    /\ Expectations(1) = {"awaiting_broadcast"}
    /\ Expectations(12) = {}

\* C32: /start or a text of a user who holds no admin grant leaves the admin
\* grants as they were and starts no broadcast.
C32_NonAdminCannotGrant ==
    [][ ( /\ last'.op \in {"handle_message", "start"}
          /\ ~is_admin(last'.user) )
        => ( /\ admins' = admins
             /\ broadcasts' = broadcasts
             /\ running' = running ) ]_vars

\* User 12, who holds no grant, has sent the add-admin label and then the
\* text 12
C32_Witness ==
    /\ last.op = "handle_message"
    /\ last.user = 12
    /\ last.text = "12"
    /\ user_data[12]["awaiting_admin_id"]
    /\ admins[12] = NoGrant
    /\ broadcasts = << >>

RECURSIVE LedgerSum(_, _, _)
\* The sum of the amounts of the entries of user u with the given type
LedgerSum(entries, u, type) ==
    IF entries = << >> THEN 0
    ELSE (IF Head(entries).user_id = u /\ Head(entries).type = type
          THEN Head(entries).amount ELSE 0)
         + LedgerSum(Tail(entries), u, type)

\* C33: after every step the balance of each account is the sum of its
\* credit entries minus the sum of its debit entries, and the entries that
\* existed before the step are still there, unchanged and in place.
C33_BalanceIsLedgerSum ==
    [][ /\ \A u \in UserIds :
              users'[u] # NoUser =>
                 users'[u].balance = LedgerSum(transactions', u, "credit")
                                       - LedgerSum(transactions', u, "debit")
        /\ \A i \in 1..Len(transactions) :
              i <= Len(transactions') /\ transactions'[i] = transactions[i]
      ]_vars

\* A credit of 30 and a debit of 20 have left a balance of 10
C33_Witness ==
    /\ users[1] # NoUser
    /\ users[1].balance = 10
    /\ Len(transactions) = 2
    /\ transactions[1].type = "credit"
    /\ transactions[2].type = "debit"

====
